---- MODULE Spec2Model ----
(***************************************************************************)
(* Model of the single-relay NostrClient (src/unnamed/part_002):           *)
(* getEvents pages a time range into BATCH_WINDOW-sized windows and runs   *)
(* one fetchEventBatch subscription per window on relayPool[0].            *)
(*                                                                         *)
(* JavaScript scheduling: a WebSocket message, a timer callback and a      *)
(* socket close are tasks; the continuation of an await is a microtask,    *)
(* which runs before the next task.  So the environment actions            *)
(* (OnMessage, OnTimeout, RelayClose) are enabled only while getEvents is  *)
(* suspended on a pending promise, and the settle -> resume -> next REQ    *)
(* steps are never interleaved with them.                                  *)
(***************************************************************************)
EXTENDS Integers, Sequences, FiniteSets, TLC

\* ------------------------------------------------------------------ bounds
MaxWindows == 5          \* longest requested range, in windows
MaxEvents == 4           \* EVENT messages delivered during one run
MaxNotices == 1          \* messages of an ignored type during one run
MaxMalformed == 2        \* malformed messages during one run
MaxConnects == 3         \* connectToRelay calls, the constructor's included
MaxCalls == 2            \* successive getEvents calls
MaxEose == 3             \* EOSE messages while two calls overlap

\* ------------------------------------------------------- program constants
BATCH_WINDOW == 24 * 60 * 60
Now == 1700000000        \* Math.floor(Date.now() / 1000) at the call
HalfWindow == BATCH_WINDOW \div 2
Urls == {"wss://yabu.me"}
\* short requested ranges: start after now (by half a window, by a window
\* and a half), start = now, one second, half a window, two full windows
ShortStartTimes ==
    {Now + 3 * HalfWindow, Now + HalfWindow, Now, Now - 1, Now - HalfWindow,
     Now - 2 * BATCH_WINDOW}
\* every window count up to MaxWindows with a clipped last window
StartTimes ==
    ShortStartTimes
      \cup {Now - (k * BATCH_WINDOW - HalfWindow) : k \in 1..MaxWindows}

\* strings are sequences of one-character strings
NoKey == <<>>
Str64(a, b) == [i \in 1..64 |-> IF i % 2 = 1 THEN a ELSE b]
HexKey == Str64("A", "f")                 \* 64 hex digits, mixed case
NpubPrefix == <<"n", "p", "u", "b">>
\* bech32 strings, shortened: the prefix, the separator and a payload tag
NpubKey == NpubPrefix \o <<"1", "q", "x">>        \* a well-formed npub
BadNpub == NpubPrefix \o <<"1", "q", "b">>        \* npub with a bad checksum
NsecKey == <<"n", "s", "e", "c", "1", "q", "x">>  \* a well-formed nsec
\* identifiers that are neither: empty, 63 and 65 hex digits, a non-hex
\* character, a broken npub, another bech32 entity
InvalidKeys ==
    {NoKey, [i \in 1..63 |-> "a"], [i \in 1..65 |-> "a"], Str64("a", "g"),
     BadNpub, NsecKey}
\* the calls made: with a progress callback over every range, without one
\* over the short ranges, all with the hex key; one short call with each
\* other identifier
Calls ==
    {<<HexKey, st, TRUE>> : st \in StartTimes}
      \cup {<<HexKey, st, FALSE>> : st \in ShortStartTimes}
      \cup {<<pk, Now - 1, TRUE>> : pk \in InvalidKeys \cup {NpubKey}}

VARIABLES
    sockets,          \* WebSocket objects: [url, readyState, onmessage]
    relayPool,        \* this.relayPool: <<[url, relay]>>, relay a socket index
    pc,               \* position of getEvents: idle, loop, await, done,
                      \* failed (the call threw)
    pubkey,           \* the identifier passed to getEvents / normalizePubkey
    normalizedPubkey, \* the value returned by normalizePubkey
    startTime, currentEndTime, currentStartTime, batchEndTime,
    hasMoreEvents, batchCount, totalBatches, events, onProgress,
    batches,          \* one activation record per fetchEventBatch call
    timers,           \* armed setTimeout timers: [id, call]
    nextTimer,        \* next timer handle
    wire,             \* REQ, CLOSE, EVENT, EOSE and malformed messages that
                      \* crossed a socket, in order
    ignored,          \* number of messages of another type received
    connects,         \* one activation record per connectToRelay call
    returned,         \* the results returned by completed getEvents calls
    second,           \* a second getEvents call made while the first one
                      \* is suspended: [pc, batch, events]
    progress          \* the onProgress calls made, in order

vars == <<sockets, relayPool, pc, pubkey, normalizedPubkey, startTime, currentEndTime, currentStartTime,
          batchEndTime, hasMoreEvents, batchCount, totalBatches, events,
          onProgress, batches, timers, nextTimer, wire, ignored, connects,
          returned, second, progress>>

getEventsVars == <<pubkey, normalizedPubkey, startTime, currentEndTime, currentStartTime, batchEndTime,
                   hasMoreEvents, batchCount, totalBatches, events, onProgress>>

\* ----------------------------------------------------------------- helpers
Min(a, b) == IF a < b THEN a ELSE b

\* faulty variant: the quotient is rounded down
Ceil_Floor(a, b) == a \div b

\* Math.ceil(a / b) for b > 0 (Math.ceil of a negative fraction is -0)
Ceil(a, b) == -((-a) \div b)

Last(s) == s[Len(s)]

\* WebSocket.send: transmitted only when the socket is OPEN; a browser
\* socket that is CLOSING or CLOSED discards the data without throwing.
Send(w, s, msg) ==
    IF sockets[s].readyState = "OPEN" THEN Append(w, msg) ELSE w

ReqMsg(s, id, since, until) ==
    [dir |-> "out", sock |-> s, type |-> "REQ", sub |-> id,
     since |-> since, until |-> until, data |-> 0]

CloseMsg(s, id) ==
    [dir |-> "out", sock |-> s, type |-> "CLOSE", sub |-> id,
     since |-> 0, until |-> 0, data |-> 0]

InMsg(s, type, data) ==
    [dir |-> "in", sock |-> s, type |-> type, sub |-> 0,
     since |-> 0, until |-> 0, data |-> data]

\* no second getEvents call has been made
NoCall == [pc |-> "idle", batch |-> 0, events |-> <<>>]

\* ------------------------------------------------------------------- Init
\* The module-level client was constructed earlier; when getEvents is
\* called the pool is empty (the connection attempt has not opened, or
\* failed) or holds one socket that opened and may have closed since.
Init ==
    /\ \E u \in Urls :
         \/ /\ sockets = <<>>
            /\ relayPool = <<>>
         \/ \E rs \in {"OPEN", "CLOSED"} :
              /\ sockets = <<[url |-> u, readyState |-> rs, onmessage |-> 0]>>
              /\ relayPool = <<[url |-> u, relay |-> 1]>>
    /\ pc = "idle"
    /\ pubkey = NoKey /\ normalizedPubkey = NoKey
    /\ startTime = 0 /\ currentEndTime = 0 /\ currentStartTime = 0
    /\ batchEndTime = 0 /\ hasMoreEvents = TRUE /\ batchCount = 0
    /\ totalBatches = 0 /\ events = <<>> /\ onProgress = FALSE
    /\ batches = <<>>
    /\ timers = {}
    /\ nextTimer = 1
    /\ wire = <<>>
    /\ ignored = 0
    /\ connects = <<>>
    /\ returned = <<>>
    /\ second = NoCall
    /\ progress = <<>>

\* ------------------------------------------------------------------ pubkey
HexChars ==
    {"0", "1", "2", "3", "4", "5", "6", "7", "8", "9",
     "a", "b", "c", "d", "e", "f", "A", "B", "C", "D", "E", "F"}

\* /^[0-9a-fA-F]{64}$/.test(s)
IsHex64(s) == Len(s) = 64 /\ \A i \in 1..64 : s[i] \in HexChars

StartsWith(s, prefix) ==
    Len(s) >= Len(prefix) /\ SubSeq(s, 1, Len(prefix)) = prefix

\* String.prototype.toLowerCase on the characters that occur in the keys
LowerChar(c) ==
    CASE c = "A" -> "a" [] c = "B" -> "b" [] c = "C" -> "c"
      [] c = "D" -> "d" [] c = "E" -> "e" [] c = "F" -> "f"
      [] OTHER -> c
ToLowerCase(s) == [i \in 1..Len(s) |-> LowerChar(s[i])]

\* nip19.decode (nostr-tools): the bech32 strings it decodes, with the
\* entity type and, for npub, the key as lower-case hex; every other
\* string makes it throw
Nip19Decode(s) ==
    CASE s = NpubKey -> [ok |-> TRUE, type |-> "npub", data |-> Str64("3", "c")]
      [] s = NsecKey -> [ok |-> TRUE, type |-> "nsec", data |-> Str64("5", "e")]
      [] OTHER -> [ok |-> FALSE, type |-> "", data |-> NoKey]

\* faulty variant: every identifier is accepted
IsValidPubkey_AcceptAll(s) == TRUE

\* isValidPubkey: the catch turns a throwing decode into false
IsValidPubkey(s) ==
    IF StartsWith(s, NpubPrefix)
    THEN Nip19Decode(s).ok /\ Nip19Decode(s).type = "npub"
    ELSE IsHex64(s)

\* faulty variant: a hex key is returned as given
NormalizePubkey_NoLower(s) ==
    IF StartsWith(s, NpubPrefix) THEN Nip19Decode(s).data ELSE s

\* normalizePubkey for an identifier that isValidPubkey accepted
NormalizePubkey(s) ==
    IF StartsWith(s, NpubPrefix) THEN Nip19Decode(s).data ELSE ToLowerCase(s)

\* ---------------------------------------------------------------- getEvents
\* faulty variant: hasMoreEvents is not set again at the start of a call
GetEventsBody_KeepStopFlag(pk, st, cb) ==
    /\ pubkey' = pk
    /\ IF IsValidPubkey(pk)
       THEN /\ normalizedPubkey' = NormalizePubkey(pk)
            /\ startTime' = st
            /\ onProgress' = cb
            /\ events' = <<>>
            /\ currentEndTime' = Now
            /\ currentStartTime' = st
            /\ UNCHANGED hasMoreEvents
            /\ batchCount' = 0
            /\ totalBatches' = Ceil(Now - st, BATCH_WINDOW)
            /\ pc' = "loop"
       ELSE /\ pc' = "failed"
            /\ UNCHANGED <<normalizedPubkey, startTime, onProgress, events,
                           currentEndTime, currentStartTime, hasMoreEvents,
                           batchCount, totalBatches>>
    /\ UNCHANGED <<sockets, relayPool, batchEndTime, batches, timers,
                   nextTimer, wire, ignored, connects, returned, second, progress>>

\* getEvents(pubkey, startTime, onProgress) up to the while loop:
\* normalizePubkey throws on an identifier that isValidPubkey rejects, and
\* the call fails before any local is initialised.
GetEventsBody(pk, st, cb) ==
    /\ pubkey' = pk
    /\ IF IsValidPubkey(pk)
       THEN /\ normalizedPubkey' = NormalizePubkey(pk)
            /\ startTime' = st
            /\ onProgress' = cb
            /\ events' = <<>>
            /\ currentEndTime' = Now
            /\ currentStartTime' = st
            /\ hasMoreEvents' = TRUE
            /\ batchCount' = 0
            /\ totalBatches' = Ceil(Now - st, BATCH_WINDOW)
            /\ pc' = "loop"
       ELSE /\ pc' = "failed"
            /\ UNCHANGED <<normalizedPubkey, startTime, onProgress, events,
                           currentEndTime, currentStartTime, hasMoreEvents,
                           batchCount, totalBatches>>
    /\ UNCHANGED <<sockets, relayPool, batchEndTime, batches, timers,
                   nextTimer, wire, ignored, connects, returned, second, progress>>

\* the call under study, made on an idle client
GetEvents(pk, st, cb) ==
    /\ pc = "idle"
    /\ GetEventsBody(pk, st, cb)

LoopCond == hasMoreEvents /\ currentStartTime < currentEndTime

\* while condition false: return events
LoopExit ==
    /\ pc = "loop"
    /\ ~LoopCond
    /\ pc' = "done"
    /\ returned' = Append(returned, events)
    /\ UNCHANGED <<sockets, relayPool, getEventsVars, batches, timers,
                   nextTimer, wire, ignored, connects, second, progress>>

\* the activation record of a fetchEventBatch call made by getEvents call
\* `caller` (1: the call under study, 2: an overlapping second call)
NewBatch(caller, since, until) ==
    [caller |-> caller, since |-> since, until |-> until, relay |-> 0, subId |-> 0,
     receivedEose |-> FALSE, timeout |-> 0, eventCount |-> 0,
     events |-> <<>>, promise |-> "pending", error |-> "none"]

\* faulty variant: the last window is not clipped to the end of the range
BatchEnd_NoClip(cur, end) == cur + BATCH_WINDOW

\* const batchEndTime = Math.min(currentStartTime + BATCH_WINDOW, currentEndTime)
BatchEnd(cur, end) == Min(cur + BATCH_WINDOW, end)

\* faulty variant: the connection's state is not looked at
RelayIsOpen_Unchecked(s) == TRUE

\* relay.readyState === WebSocket.OPEN
RelayIsOpen(s) == sockets[s].readyState = "OPEN"

\* fetchEventBatch(filter) up to the promise it returns, called by getEvents
\* call `caller` for the window since..until
Subscribe(caller, since, until) ==
    LET k == Len(batches) + 1
        b == NewBatch(caller, since, until)
    IN
    IF Len(relayPool) = 0
    THEN /\ batches' = Append(batches,
              [b EXCEPT !.promise = "rejected", !.error = "NoRelay"])
         /\ UNCHANGED <<sockets, timers, nextTimer, wire>>
    ELSE LET s == relayPool[1].relay IN
         IF ~RelayIsOpen(s)
         THEN /\ batches' = Append(batches,
                   [b EXCEPT !.relay = s, !.promise = "rejected",
                             !.error = "NotOpen"])
              /\ UNCHANGED <<sockets, timers, nextTimer, wire>>
         ELSE \* subId, resetTimeout(), relay.onmessage = ..., send REQ
              /\ batches' = Append(batches,
                   [b EXCEPT !.relay = s, !.subId = k,
                             !.timeout = nextTimer])
              /\ timers' = timers \cup {[id |-> nextTimer, call |-> k]}
              /\ nextTimer' = nextTimer + 1
              /\ sockets' = [sockets EXCEPT ![s].onmessage = k]
              /\ wire' = Send(wire, s, ReqMsg(s, k, since, until))

\* One loop iteration up to the await: the window is computed and
\* fetchEventBatch(filter) runs synchronously until it returns its promise.
FetchEventBatch ==
    /\ pc = "loop"
    /\ LoopCond
    /\ LET bEnd == BatchEnd(currentStartTime, currentEndTime) IN
       /\ batchEndTime' = bEnd
       /\ batchCount' = batchCount + 1
       /\ Subscribe(1, currentStartTime, bEnd)
    /\ pc' = "await"
    /\ UNCHANGED <<relayPool, pubkey, normalizedPubkey, startTime,
                   currentEndTime, currentStartTime, hasMoreEvents,
                   totalBatches, events, onProgress, ignored, connects,
                   returned, second, progress>>

\* ---------------------------------------------------- fetchEventBatch closures
\* the fetchEventBatch calls made by getEvents call c
CallsOf(c) == {k \in DOMAIN batches : batches[k].caller = c}

\* the fetchEventBatch call whose promise getEvents is awaiting
Awaited == CHOOSE k \in CallsOf(1) : \A j \in CallsOf(1) : j <= k

\* the second call's awaited promise is settled and its continuation
\* (a microtask) has not run yet
SecondSettled ==
    second.pc = "await" /\ batches[second.batch].promise # "pending"

\* every getEvents call in progress is suspended on a pending promise, so
\* the event loop is free to run the next task
Suspended ==
    /\ ~SecondSettled
    /\ \/ pc = "await" /\ batches[Awaited].promise = "pending"
       \/ pc = "done" /\ second.pc = "await"

\* clearTimeout(id): the timer with that handle, if still armed, is disarmed
ClearTimeout(T, id) == {t \in T : t.id # id}

\* faulty variant: resetTimeout() arms a timer without cancelling the old one
ResetTimeout_NoClear(T, B, k) == T \cup {[id |-> nextTimer, call |-> k]}

\* resetTimeout() of closure k: if (timeout) clearTimeout(timeout);
\* timeout = setTimeout(...)
ResetTimeout(T, B, k) ==
    ClearTimeout(T, B[k].timeout) \cup {[id |-> nextTimer, call |-> k]}

\* faulty variant: cleanup() leaves the timer armed
CleanupTimers_Keep(T, B, k) == T

\* cleanup(): if (timeout) clearTimeout(timeout)
CleanupTimers(T, B, k) == ClearTimeout(T, B[k].timeout)

\* faulty variant: cleanup() leaves the message handler on the connection
CleanupHandler_Keep(S, B, k) == S

\* cleanup(): relay.onmessage = null
CleanupHandler(S, B, k) == [S EXCEPT ![B[k].relay].onmessage = 0]

\* resolve(events): settles the promise unless it is already settled
Resolve(B, k) ==
    IF B[k].promise = "pending" THEN [B EXCEPT ![k].promise = "resolved"] ELSE B

\* reject(error)
Reject(B, k) ==
    IF B[k].promise = "pending"
    THEN [B EXCEPT ![k].promise = "rejected", ![k].error = "Malformed"]
    ELSE B

\* faulty variant: no CLOSE is sent
SendClose_Skip(w, B, k) == w

\* relay.send(JSON.stringify(["CLOSE", subId])) of closure k
SendClose(w, B, k) == Send(w, B[k].relay, CloseMsg(B[k].relay, B[k].subId))

\* The relay's stored events are distinct records; the payload of an EVENT
\* message is identified by its ordinal among the EVENT messages of the run.
Records(w) == {Len(SelectSeq(w, LAMBDA m : m.dir = "in" /\ m.type = "EVENT")) + 1}

\* the messages of one type received so far
Received(w, type) == SelectSeq(w, LAMBDA m : m.dir = "in" /\ m.type = type)

\* subscription ids the relay has seen on socket s
SubIdsOn(s) == {wire[i].sub : i \in {j \in DOMAIN wire :
                    wire[j].sock = s /\ wire[j].dir = "out" /\ wire[j].type = "REQ"}}

CanReceive(s) ==
    /\ Suspended
    /\ s \in DOMAIN sockets
    /\ sockets[s].readyState = "OPEN"

\* the timer callback and message handler bodies leave getEvents' locals alone
ClosureFrame == UNCHANGED <<relayPool, pc, getEventsVars, connects, returned, second, progress>>


\* relay.onmessage, branch type === 'EVENT'; the subscription id of the
\* message (second array element) is bound to _ and never read.
OnEvent(s, sid, r) ==
    /\ CanReceive(s)
    /\ sid \in SubIdsOn(s)
    /\ Len(Received(wire, "EVENT")) < MaxEvents
    /\ wire' = Append(wire, InMsg(s, "EVENT", r))
    /\ LET k == sockets[s].onmessage IN
       IF k = 0
       THEN UNCHANGED <<batches, timers, nextTimer>>
       ELSE \* eventCount++; resetTimeout(); events.push(eventData)
            /\ batches' = [batches EXCEPT
                             ![k].eventCount = @ + 1,
                             ![k].timeout = nextTimer,
                             ![k].events = Append(@, r)]
            /\ timers' = ResetTimeout(timers, batches, k)
            /\ nextTimer' = nextTimer + 1
    /\ UNCHANGED sockets
    /\ UNCHANGED ignored
    /\ ClosureFrame

\* relay.onmessage, branch type === 'EOSE'
OnEose(s, sid) ==
    /\ CanReceive(s)
    /\ sid \in SubIdsOn(s)
    /\ LET k == sockets[s].onmessage
           w1 == Append(wire, InMsg(s, "EOSE", 0))
       IN
       IF k = 0
       THEN /\ wire' = w1
            /\ UNCHANGED <<batches, timers, sockets>>
       ELSE LET B1 == [batches EXCEPT ![k].receivedEose = TRUE] IN
            /\ timers' = CleanupTimers(timers, B1, k)
            /\ sockets' = CleanupHandler(sockets, B1, k)
            /\ wire' = SendClose(w1, B1, k)
            /\ batches' = Resolve(B1, k)
    /\ UNCHANGED nextTimer
    /\ UNCHANGED ignored
    /\ ClosureFrame

\* relay.onmessage, a well-formed array of any other type: no branch taken
OnNotice(s) ==
    /\ CanReceive(s)
    /\ ignored < MaxNotices
    /\ ignored' = ignored + 1
    /\ UNCHANGED <<batches, timers, nextTimer, sockets, wire>>
    /\ ClosureFrame

\* relay.onmessage, JSON.parse or the destructuring throws: catch branch
OnMalformed(s) ==
    /\ CanReceive(s)
    /\ Len(Received(wire, "MALFORMED")) < MaxMalformed
    /\ LET k == sockets[s].onmessage
           w1 == Append(wire, InMsg(s, "MALFORMED", 0))
       IN
       /\ wire' = w1
       /\ IF k = 0
          THEN UNCHANGED <<batches, timers, sockets>>
          ELSE /\ timers' = CleanupTimers(timers, batches, k)
               /\ sockets' = CleanupHandler(sockets, batches, k)
               /\ batches' = Reject(batches, k)
    /\ UNCHANGED nextTimer
    /\ UNCHANGED ignored
    /\ ClosureFrame

\* faulty variant of the timer callback: the silence timeout is reported as
\* a failure of the window
OnTimeout_Reject(t) ==
    /\ pc \in {"await", "done"}
    /\ pc = "await" => Suspended
    /\ ~SecondSettled
    /\ t \in timers
    /\ LET k == t.call
           T1 == timers \ {t}
       IN
       IF batches[k].receivedEose
       THEN /\ timers' = T1
            /\ UNCHANGED <<batches, sockets, wire>>
       ELSE /\ timers' = CleanupTimers(T1, batches, k)
            /\ sockets' = CleanupHandler(sockets, batches, k)
            /\ wire' = SendClose(wire, batches, k)
            /\ batches' = Reject(batches, k)
    /\ UNCHANGED nextTimer
    /\ UNCHANGED ignored
    /\ ClosureFrame

\* faulty variant of the timer callback: the subscription is closed but the
\* promise is left pending
OnTimeout_NoResolve(t) ==
    /\ pc \in {"await", "done"}
    /\ pc = "await" => Suspended
    /\ ~SecondSettled
    /\ t \in timers
    /\ LET k == t.call
           T1 == timers \ {t}
       IN
       IF batches[k].receivedEose
       THEN /\ timers' = T1
            /\ UNCHANGED <<batches, sockets, wire>>
       ELSE /\ timers' = CleanupTimers(T1, batches, k)
            /\ sockets' = CleanupHandler(sockets, batches, k)
            /\ wire' = SendClose(wire, batches, k)
            /\ UNCHANGED batches
    /\ UNCHANGED nextTimer
    /\ UNCHANGED ignored
    /\ ClosureFrame

\* the setTimeout callback armed by resetTimeout() of closure t.call
OnTimeout(t) ==
    /\ pc \in {"await", "done"}
    /\ pc = "await" => Suspended
    /\ ~SecondSettled
    /\ t \in timers
    /\ LET k == t.call
           T1 == timers \ {t}
       IN
       IF batches[k].receivedEose
       THEN /\ timers' = T1
            /\ UNCHANGED <<batches, sockets, wire>>
       ELSE /\ timers' = CleanupTimers(T1, batches, k)
            /\ sockets' = CleanupHandler(sockets, batches, k)
            /\ wire' = SendClose(wire, batches, k)
            /\ batches' = Resolve(batches, k)
    /\ UNCHANGED nextTimer
    /\ UNCHANGED ignored
    /\ ClosureFrame

\* the transport closes (relay side or network); no onclose handler exists
RelayClose(s) ==
    /\ Suspended
    /\ s \in DOMAIN sockets
    /\ sockets[s].readyState = "OPEN"
    /\ sockets' = [sockets EXCEPT ![s].readyState = "CLOSED"]
    /\ UNCHANGED <<batches, timers, nextTimer, wire>>
    /\ UNCHANGED ignored
    /\ ClosureFrame

\* ------------------------------------------------- getEvents after the await
\* faulty variant: reports the size of the last window, not the total
Progress_PerWindow(n, evs) ==
    [currentBatch |-> n, totalBatches |-> totalBatches,
     fetchedEvents |-> Len(batches[Awaited].events), startDate |-> currentStartTime,
     endDate |-> batchEndTime, partialEvents |-> evs]

\* faulty variant: the callback is handed the records of the last window only
Progress_WindowOnly(n, evs) ==
    [currentBatch |-> n, totalBatches |-> totalBatches,
     fetchedEvents |-> Len(evs), startDate |-> currentStartTime,
     endDate |-> batchEndTime, partialEvents |-> batches[Awaited].events]

\* the FetchProgress object and the copy of events handed to onProgress;
\* startDate and endDate are kept as the instants the ISO strings denote
Progress(n, evs) ==
    [currentBatch |-> n, totalBatches |-> totalBatches,
     fetchedEvents |-> Len(evs), startDate |-> currentStartTime,
     endDate |-> batchEndTime, partialEvents |-> evs]

\* faulty variant: the window's records are put in front of the accumulator
ResumeOk_Prepend ==
    /\ pc = "await"
    /\ batches[Awaited].promise = "resolved"
    /\ LET batchEvents == batches[Awaited].events
           evs == batchEvents \o events
       IN
       /\ events' = evs
       /\ progress' = IF onProgress
                      THEN Append(progress, Progress(batchCount, evs))
                      ELSE progress
       /\ IF Len(batchEvents) = 0
          THEN /\ hasMoreEvents' = FALSE
               /\ UNCHANGED currentStartTime
          ELSE /\ currentStartTime' = batchEndTime
               /\ UNCHANGED hasMoreEvents
    /\ pc' = "loop"
    /\ UNCHANGED <<sockets, relayPool, pubkey, normalizedPubkey, startTime, currentEndTime, batchEndTime,
                   batchCount, totalBatches, onProgress, batches, timers,
                   nextTimer, wire, ignored, connects, returned, second>>

\* faulty variant: an empty window does not end the loop
ResumeOk_NoStop ==
    /\ pc = "await"
    /\ batches[Awaited].promise = "resolved"
    /\ LET batchEvents == batches[Awaited].events
           evs == events \o batchEvents
       IN
       /\ events' = evs
       /\ progress' = IF onProgress
                      THEN Append(progress, Progress(batchCount, evs))
                      ELSE progress
       /\ currentStartTime' = batchEndTime
       /\ UNCHANGED hasMoreEvents
    /\ pc' = "loop"
    /\ UNCHANGED <<sockets, relayPool, pubkey, normalizedPubkey, startTime, currentEndTime, batchEndTime,
                   batchCount, totalBatches, onProgress, batches, timers,
                   nextTimer, wire, ignored, connects, returned, second>>

\* faulty variant: the notification counts notifications, not windows
ResumeOk_StaleBatch ==
    /\ pc = "await"
    /\ batches[Awaited].promise = "resolved"
    /\ LET batchEvents == batches[Awaited].events
           evs == events \o batchEvents
       IN
       /\ events' = evs
       /\ progress' = IF onProgress
                      THEN Append(progress, Progress(Len(progress), evs))
                      ELSE progress
       /\ IF Len(batchEvents) = 0
          THEN /\ hasMoreEvents' = FALSE
               /\ UNCHANGED currentStartTime
          ELSE /\ currentStartTime' = batchEndTime
               /\ UNCHANGED hasMoreEvents
    /\ pc' = "loop"
    /\ UNCHANGED <<sockets, relayPool, pubkey, normalizedPubkey, startTime, currentEndTime, batchEndTime,
                   batchCount, totalBatches, onProgress, batches, timers,
                   nextTimer, wire, ignored, connects, returned, second>>

\* faulty variant: a window without records is not reported to the callback
ResumeOk_QuietEmpty ==
    /\ pc = "await"
    /\ batches[Awaited].promise = "resolved"
    /\ LET batchEvents == batches[Awaited].events
           evs == events \o batchEvents
       IN
       /\ events' = evs
       /\ progress' = IF onProgress /\ Len(batchEvents) > 0
                      THEN Append(progress, Progress(batchCount, evs))
                      ELSE progress
       /\ IF Len(batchEvents) = 0
          THEN /\ hasMoreEvents' = FALSE
               /\ UNCHANGED currentStartTime
          ELSE /\ currentStartTime' = batchEndTime
               /\ UNCHANGED hasMoreEvents
    /\ pc' = "loop"
    /\ UNCHANGED <<sockets, relayPool, pubkey, normalizedPubkey, startTime, currentEndTime, batchEndTime,
                   batchCount, totalBatches, onProgress, batches, timers,
                   nextTimer, wire, ignored, connects, returned, second>>

\* try branch: the awaited promise was resolved with the closure's events
ResumeOk ==
    /\ pc = "await"
    /\ batches[Awaited].promise = "resolved"
    /\ LET batchEvents == batches[Awaited].events
           evs == events \o batchEvents
       IN
       /\ events' = evs
       /\ progress' = IF onProgress
                      THEN Append(progress, Progress(batchCount, evs))
                      ELSE progress
       /\ IF Len(batchEvents) = 0
          THEN /\ hasMoreEvents' = FALSE
               /\ UNCHANGED currentStartTime
          ELSE /\ currentStartTime' = batchEndTime
               /\ UNCHANGED hasMoreEvents
    /\ pc' = "loop"
    /\ UNCHANGED <<sockets, relayPool, pubkey, normalizedPubkey, startTime, currentEndTime, batchEndTime,
                   batchCount, totalBatches, onProgress, batches, timers,
                   nextTimer, wire, ignored, connects, returned, second>>

\* faulty variant: a failed window ends the fetch
ResumeCatch_Abort ==
    /\ pc = "await"
    /\ batches[Awaited].promise = "rejected"
    /\ hasMoreEvents' = FALSE
    /\ pc' = "loop"
    /\ UNCHANGED <<sockets, relayPool, pubkey, normalizedPubkey, startTime, currentEndTime, currentStartTime,
                   batchEndTime, batchCount, totalBatches, events, onProgress,
                   batches, timers, nextTimer, wire, ignored, connects, returned, second, progress>>

\* faulty variant: the records buffered by the failed window are kept
ResumeCatch_KeepPartial ==
    /\ pc = "await"
    /\ batches[Awaited].promise = "rejected"
    /\ events' = events \o batches[Awaited].events
    /\ currentStartTime' = batchEndTime
    /\ pc' = "loop"
    /\ UNCHANGED <<sockets, relayPool, pubkey, normalizedPubkey, startTime, currentEndTime, batchEndTime,
                   hasMoreEvents, batchCount, totalBatches, onProgress,
                   batches, timers, nextTimer, wire, ignored, connects, returned, second, progress>>

\* catch branch: the awaited promise was rejected
ResumeCatch ==
    /\ pc = "await"
    /\ batches[Awaited].promise = "rejected"
    /\ currentStartTime' = batchEndTime
    /\ pc' = "loop"
    /\ UNCHANGED <<sockets, relayPool, pubkey, normalizedPubkey, startTime, currentEndTime, batchEndTime,
                   hasMoreEvents, batchCount, totalBatches, events, onProgress,
                   batches, timers, nextTimer, wire, ignored, connects, returned, second, progress>>

\* ------------------------------------------------------------ specification
Next ==
    \/ \E c \in Calls : GetEvents(c[1], c[2], c[3])
    \/ LoopExit
    \/ FetchEventBatch
    \/ \E s \in DOMAIN sockets, sid \in 1..MaxWindows, r \in Records(wire) : OnEvent(s, sid, r)
    \/ \E s \in DOMAIN sockets, sid \in 1..MaxWindows : OnEose(s, sid)
    \/ \E s \in DOMAIN sockets : OnNotice(s)
    \/ \E s \in DOMAIN sockets : OnMalformed(s)
    \/ \E t \in timers : OnTimeout(t)
    \/ \E s \in DOMAIN sockets : RelayClose(s)
    \/ ResumeOk
    \/ ResumeCatch

Spec == Init /\ [][Next]_vars

\* The continuations of getEvents are microtasks and the loop runs
\* synchronously between awaits, so each of them runs once it is due; an
\* armed timer eventually fires.  Messages and the closing of the
\* connection are left to the environment, without fairness.
Fairness ==
    /\ WF_vars(LoopExit)
    /\ WF_vars(FetchEventBatch)
    /\ WF_vars(ResumeOk)
    /\ WF_vars(ResumeCatch)
    /\ WF_vars(\E t \in timers : OnTimeout(t))

\* the calls of the fair runs: the short ranges (start after now, start =
\* now, up to two windows) without a callback, three windows with one
LiveCalls ==
    {<<HexKey, st, FALSE>> : st \in ShortStartTimes}
      \cup {<<HexKey, Now - 5 * HalfWindow, TRUE>>}

NextLive ==
    \/ \E c \in LiveCalls : GetEvents(c[1], c[2], c[3])
    \/ LoopExit
    \/ FetchEventBatch
    \/ \E s \in DOMAIN sockets, sid \in 1..MaxWindows, r \in Records(wire) : OnEvent(s, sid, r)
    \/ \E s \in DOMAIN sockets, sid \in 1..MaxWindows : OnEose(s, sid)
    \/ \E s \in DOMAIN sockets : OnNotice(s)
    \/ \E s \in DOMAIN sockets : OnMalformed(s)
    \/ \E t \in timers : OnTimeout(t)
    \/ \E s \in DOMAIN sockets : RelayClose(s)
    \/ ResumeOk
    \/ ResumeCatch

SpecLive == Init /\ [][NextLive]_vars /\ Fairness


\* ------------------------------------------------------------ connectToRelay
\* relay urls a caller may pass (the default one and another)
RelayUrls == Urls \cup {"wss://nos.lol"}

\* everything connectToRelay and its callbacks leave alone
ConnectFrame ==
    UNCHANGED <<pc, getEventsVars, batches, timers, nextTimer, wire, ignored,
                returned, second, progress>>

\* this.relayPool.find(r => r.url === url): index of the first entry, or 0
FindRelay(pool, url) ==
    LET I == {i \in DOMAIN pool : pool[i].url = url}
    IN IF I = {} THEN 0 ELSE CHOOSE i \in I : \A j \in I : i <= j

\* existingRelay && existingRelay.relay.readyState === WebSocket.OPEN
CanReuse(url) ==
    /\ FindRelay(relayPool, url) # 0
    /\ sockets[relayPool[FindRelay(relayPool, url)].relay].readyState = "OPEN"

\* relayPool.forEach: relay.close() on every pooled socket that is OPEN
CloseAll(S, pool) ==
    [i \in DOMAIN S |->
        IF (\E j \in DOMAIN pool : pool[j].relay = i) /\ S[i].readyState = "OPEN"
        THEN [S[i] EXCEPT !.readyState = "CLOSING"]
        ELSE S[i]]

\* some earlier connectToRelay call has not settled yet
ConnectPending == \E c \in DOMAIN connects : connects[c].promise = "pending"

NewConnect(url, sock, reused) ==
    [url |-> url, sock |-> sock, reused |-> reused,
     timer |-> IF reused THEN "none" ELSE "armed",
     promise |-> IF reused THEN "resolved" ELSE "pending",
     error |-> "none", alone |-> ~ConnectPending]

\* the part of connectToRelay after the reuse test: close, clear, connect
Reconnect(url) ==
    /\ sockets' = Append(CloseAll(sockets, relayPool),
                         [url |-> url, readyState |-> "CONNECTING", onmessage |-> 0])
    /\ relayPool' = <<>>
    /\ connects' = Append(connects, NewConnect(url, Len(sockets) + 1, FALSE))

\* faulty variant: an open connection to the same url is not reused
ConnectToRelay_NoReuse(url) ==
    /\ pc = "idle"
    /\ Len(connects) < MaxConnects
    /\ Reconnect(url)
    /\ ConnectFrame

\* connectToRelay(url) up to the await
ConnectToRelay(url) ==
    /\ pc = "idle"
    /\ Len(connects) < MaxConnects
    /\ IF CanReuse(url)
       THEN /\ connects' = Append(connects, NewConnect(url, 0, TRUE))
            /\ UNCHANGED <<sockets, relayPool>>
       ELSE Reconnect(url)
    /\ ConnectFrame

\* clearTimeout(timeout) of attempt c
ClearConnectTimer(C, c) ==
    IF C[c].timer = "armed" THEN [C EXCEPT ![c].timer = "cleared"] ELSE C

\* resolve() / reject(error) of attempt c: a settled promise stays as it is
SettleConnect(C, c, outcome, error) ==
    IF C[c].promise = "pending"
    THEN [C EXCEPT ![c].promise = outcome, ![c].error = error]
    ELSE C

\* faulty variant: onopen does not cancel the wait timer
OnOpen_KeepTimer(c) ==
    /\ c \in DOMAIN connects
    /\ ~connects[c].reused
    /\ sockets[connects[c].sock].readyState = "CONNECTING"
    /\ sockets' = [sockets EXCEPT ![connects[c].sock].readyState = "OPEN"]
    /\ relayPool' = Append(relayPool,
                           [url |-> connects[c].url, relay |-> connects[c].sock])
    /\ connects' = SettleConnect(connects, c, "resolved", "none")
    /\ ConnectFrame

\* relay.onopen of attempt c: the transport opened
OnOpen(c) ==
    /\ c \in DOMAIN connects
    /\ ~connects[c].reused
    /\ sockets[connects[c].sock].readyState = "CONNECTING"
    /\ sockets' = [sockets EXCEPT ![connects[c].sock].readyState = "OPEN"]
    /\ relayPool' = Append(relayPool,
                           [url |-> connects[c].url, relay |-> connects[c].sock])
    /\ connects' = SettleConnect(ClearConnectTimer(connects, c), c,
                                 "resolved", "none")
    /\ ConnectFrame

\* relay.onerror of attempt c: the transport failed to open
OnError(c) ==
    /\ c \in DOMAIN connects
    /\ ~connects[c].reused
    /\ sockets[connects[c].sock].readyState = "CONNECTING"
    /\ sockets' = [sockets EXCEPT ![connects[c].sock].readyState = "CLOSED"]
    /\ connects' = SettleConnect(ClearConnectTimer(connects, c), c,
                                 "rejected", "Failed")
    /\ UNCHANGED relayPool
    /\ ConnectFrame

\* the 10 s setTimeout callback of attempt c; the socket is left connecting
OnConnectTimeout(c) ==
    /\ c \in DOMAIN connects
    /\ connects[c].timer = "armed"
    /\ connects' = SettleConnect([connects EXCEPT ![c].timer = "fired"], c,
                                 "rejected", "Timeout")
    /\ UNCHANGED <<sockets, relayPool>>
    /\ ConnectFrame

\* an open or closing transport goes down; onerror then finds the timer
\* cleared and the promise settled, and nothing in the client changes
SocketDown(s) ==
    /\ s \in DOMAIN sockets
    /\ sockets[s].readyState \in {"OPEN", "CLOSING"}
    /\ sockets' = [sockets EXCEPT ![s].readyState = "CLOSED"]
    /\ UNCHANGED <<relayPool, connects>>
    /\ ConnectFrame

\* state right after `new NostrClient()`: the constructor's un-awaited
\* connectToRelay('wss://yabu.me') has run up to its await
InitConnect ==
    /\ \E u \in Urls :
         /\ sockets = <<[url |-> u, readyState |-> "CONNECTING", onmessage |-> 0]>>
         /\ connects = <<[url |-> u, sock |-> 1, reused |-> FALSE,
                          timer |-> "armed", promise |-> "pending",
                          error |-> "none", alone |-> TRUE]>>
    /\ relayPool = <<>>
    /\ pc = "idle"
    /\ pubkey = NoKey /\ normalizedPubkey = NoKey
    /\ startTime = 0 /\ currentEndTime = 0 /\ currentStartTime = 0
    /\ batchEndTime = 0 /\ hasMoreEvents = TRUE /\ batchCount = 0
    /\ totalBatches = 0 /\ events = <<>> /\ onProgress = FALSE
    /\ batches = <<>>
    /\ timers = {}
    /\ nextTimer = 1
    /\ wire = <<>>
    /\ ignored = 0
    /\ returned = <<>>
    /\ second = NoCall
    /\ progress = <<>>

NextConnect ==
    \/ \E u \in RelayUrls : ConnectToRelay(u)
    \/ \E c \in DOMAIN connects : OnOpen(c)
    \/ \E c \in DOMAIN connects : OnError(c)
    \/ \E c \in DOMAIN connects : OnConnectTimeout(c)
    \/ \E s \in DOMAIN sockets : SocketDown(s)

SpecConnect == InitConnect /\ [][NextConnect]_vars

\* ----------------------------------------------------------- normalizePubkey
\* normalizePubkey on its own: one call on an identifier, then one call on
\* the value the first call returned
HexSample == {"0", "9", "a", "f", "A", "F", "c", "E"}
NormalizeInputs ==
    {Str64(a, b) : a, b \in HexSample} \cup InvalidKeys \cup {NpubKey}

NormalizeFrame ==
    UNCHANGED <<sockets, relayPool, pubkey, startTime, currentEndTime,
                currentStartTime, batchEndTime, hasMoreEvents, batchCount,
                totalBatches, events, onProgress, batches, timers, nextTimer,
                wire, ignored, connects, returned, second, progress>>

\* normalizePubkey(pubkey)
Normalize ==
    /\ pc = "idle"
    /\ IF IsValidPubkey(pubkey)
       THEN /\ normalizedPubkey' = NormalizePubkey(pubkey)
            /\ pc' = "normalized"
       ELSE /\ pc' = "failed"
            /\ UNCHANGED normalizedPubkey
    /\ NormalizeFrame

\* normalizePubkey(normalizePubkey(pubkey)): the second call
Renormalize ==
    /\ pc = "normalized"
    /\ IF IsValidPubkey(normalizedPubkey)
       THEN /\ normalizedPubkey' = NormalizePubkey(normalizedPubkey)
            /\ pc' = "renormalized"
       ELSE /\ pc' = "failed"
            /\ UNCHANGED normalizedPubkey
    /\ NormalizeFrame

InitNormalize ==
    /\ pubkey \in NormalizeInputs
    /\ normalizedPubkey = NoKey
    /\ pc = "idle"
    /\ sockets = <<>> /\ relayPool = <<>>
    /\ startTime = 0 /\ currentEndTime = 0 /\ currentStartTime = 0
    /\ batchEndTime = 0 /\ hasMoreEvents = TRUE /\ batchCount = 0
    /\ totalBatches = 0 /\ events = <<>> /\ onProgress = FALSE
    /\ batches = <<>>
    /\ timers = {}
    /\ nextTimer = 1
    /\ wire = <<>>
    /\ ignored = 0
    /\ connects = <<>>
    /\ returned = <<>>
    /\ second = NoCall
    /\ progress = <<>>

NextNormalize == Normalize \/ Renormalize

SpecNormalize == InitNormalize /\ [][NextNormalize]_vars

\* ------------------------------------------------- two calls in succession
\* The events the relay stores, as [id, created_at]; the set stays the same
\* over both calls.  The first lies in the first window of a 2.5-window
\* range, the second in the last second before now.
StoredEvents ==
    {[id |-> 1, created_at |-> Now - 2 * BATCH_WINDOW],
     [id |-> 2, created_at |-> Now - 1]}

\* ranges of 2.5 windows, 1.5 windows, half a window, and the empty range
TwiceStartTimes ==
    {Now - 5 * HalfWindow, Now - 3 * HalfWindow, Now - HalfWindow, Now}

\* ids of the stored events that match the filter of call k
\* (since <= created_at <= until)
Matching(k) ==
    {e.id : e \in {x \in StoredEvents :
                     batches[k].since <= x.created_at
                        /\ x.created_at <= batches[k].until}}

\* matching events the relay has not sent yet on subscription k
Unsent(k) ==
    Matching(k) \ {batches[k].events[i] : i \in DOMAIN batches[k].events}

\* the relay answers the open subscription with a stored event
RelayAnswersEvent(s) ==
    /\ sockets[s].onmessage # 0
    /\ LET k == sockets[s].onmessage IN
       \E r \in Unsent(k) : OnEvent(s, batches[k].subId, r)

\* the relay has sent every matching stored event and sends EOSE
RelayAnswersEose(s) ==
    /\ sockets[s].onmessage # 0
    /\ LET k == sockets[s].onmessage IN
       /\ Unsent(k) = {}
       /\ OnEose(s, batches[k].subId)

\* getEvents called again after the previous call returned, with the same
\* identifier, start time and callback
GetEventsAgain ==
    /\ pc = "done"
    /\ Len(returned) < MaxCalls
    /\ GetEventsBody(pubkey, startTime, onProgress)

InitTwice ==
    /\ Init
    /\ Len(relayPool) = 1
    /\ sockets[1].readyState = "OPEN"

NextTwice ==
    \/ \E st \in TwiceStartTimes : GetEvents(HexKey, st, TRUE)
    \/ GetEventsAgain
    \/ LoopExit
    \/ FetchEventBatch
    \/ \E s \in DOMAIN sockets : RelayAnswersEvent(s)
    \/ \E s \in DOMAIN sockets : RelayAnswersEose(s)
    \/ \E t \in timers : OnTimeout(t)
    \/ ResumeOk

SpecTwice == InitTwice /\ [][NextTwice]_vars

\* ------------------------------------------------------- overlapping calls
\* the first call's inputs: half a window and 1.5 windows, no callback
OverlapCalls ==
    {<<HexKey, Now - HalfWindow, FALSE>>, <<HexKey, Now - 3 * HalfWindow, FALSE>>}

\* A second getEvents(pubkey, now - half a window) is called on the same
\* client while the first call is suspended; nothing in getEvents or
\* fetchEventBatch looks for a call in progress.  It runs up to its first
\* await: its one window goes to relayPool[0] like any other.
GetEventsOverlap ==
    /\ pc = "await"
    /\ Suspended
    /\ second.pc = "idle"
    /\ Subscribe(2, Now - HalfWindow, Now)
    /\ second' = [pc |-> "await", batch |-> Len(batches) + 1, events |-> <<>>]
    /\ UNCHANGED <<relayPool, pc, getEventsVars, ignored, connects, returned,
                   progress>>

\* the second call after its await: its range was one window, so the loop
\* ends whether the window resolved (empty or not) or failed, and it returns
ResumeSecond ==
    /\ SecondSettled
    /\ LET evs == IF batches[second.batch].promise = "resolved"
                  THEN batches[second.batch].events
                  ELSE <<>>
       IN
       /\ second' = [second EXCEPT !.pc = "done", !.events = evs]
       /\ returned' = Append(returned, evs)
    /\ UNCHANGED <<sockets, relayPool, pc, getEventsVars, batches, timers,
                   nextTimer, wire, ignored, connects, progress>>

InitOverlap ==
    /\ Init
    /\ Len(relayPool) = 1
    /\ sockets[1].readyState = "OPEN"

NextOverlap ==
    \/ \E c \in OverlapCalls : GetEvents(c[1], c[2], c[3])
    \/ GetEventsOverlap
    \/ LoopExit
    \/ FetchEventBatch
    \/ \E s \in DOMAIN sockets, sid \in DOMAIN batches, r \in Records(wire) :
          OnEvent(s, sid, r)
    \/ /\ Len(Received(wire, "EOSE")) < MaxEose
       /\ \E s \in DOMAIN sockets, sid \in DOMAIN batches : OnEose(s, sid)
    \/ \E t \in timers : OnTimeout(t)
    \/ ResumeOk
    \/ ResumeSecond

SpecOverlap == InitOverlap /\ [][NextOverlap]_vars

\* ------------------------------------------------------ multi-relay variant
\* src/client/src/lib/nostr.ts: the constructor opens one socket per default
\* relay and pools it at once, without waiting for it to open;
\* fetchEventBatch runs one subscription per pooled relay and joins them
\* with Promise.all; getEvents has no try/catch around the await.
DefaultRelays == <<"wss://relay.damus.io", "wss://nos.lol">>

\* the calls made: half a window and 1.5 windows, with a progress callback
MultiCalls ==
    {<<HexKey, Now - HalfWindow, TRUE>>, <<HexKey, Now - 3 * HalfWindow, TRUE>>}

\* bound on the messages the relays deliver in the multi-relay runs
MaxMultiMessages == 3

\* the messages received so far, of either type
MultiReceived == Len(Received(wire, "EVENT")) + Len(Received(wire, "EOSE"))

\* activation record of one promise executor of relayPool.map: window w,
\* socket s
MultiBatch(w, s, since, until) ==
    [caller |-> 1, window |-> w, since |-> since, until |-> until,
     relay |-> s, subId |-> 0, receivedEose |-> FALSE, timeout |-> 0,
     eventCount |-> 0, events |-> <<>>, promise |-> "pending",
     error |-> "none"]

\* the executors of window w
WindowClosures(w) == {k \in DOMAIN batches : batches[k].window = w}

\* the socket is still connecting: WebSocket.send throws InvalidStateError
SendThrows(s) == sockets[s].readyState = "CONNECTING"

\* relay.send(REQ) of the executors i.. of one map, in pool order
RECURSIVE SendReqs(_, _, _, _, _)
SendReqs(w, i, base, since, until) ==
    IF i > Len(relayPool) THEN w
    ELSE SendReqs(Send(w, relayPool[i].relay,
                       ReqMsg(relayPool[i].relay, base + i, since, until)),
                  i + 1, base, since, until)

\* One loop iteration up to the await: relayPool.map runs every executor
\* synchronously.  Each arms its timer (resetTimeout), then sends the REQ;
\* a throwing send rejects that executor's promise and skips the
\* assignment of relay.onmessage, the timer stays armed.
MultiFetchEventBatch ==
    /\ pc = "loop"
    /\ LoopCond
    /\ LET bEnd == BatchEnd(currentStartTime, currentEndTime)
           n == Len(relayPool)
           base == Len(batches)
           closure(i) ==
               LET s == relayPool[i].relay IN
               [MultiBatch(batchCount + 1, s, currentStartTime, bEnd) EXCEPT
                   !.subId = base + i,
                   !.timeout = nextTimer + i - 1,
                   !.promise = IF SendThrows(s) THEN "rejected" ELSE "pending",
                   !.error = IF SendThrows(s) THEN "SendThrew" ELSE "none"]
       IN
       /\ batchEndTime' = bEnd
       /\ batchCount' = batchCount + 1
       /\ batches' = batches \o [i \in 1..n |-> closure(i)]
       /\ timers' = timers \cup
                      {[id |-> nextTimer + i - 1, call |-> base + i] : i \in 1..n}
       /\ nextTimer' = nextTimer + n
       /\ sockets' = [s \in DOMAIN sockets |->
                        IF SendThrows(s) THEN sockets[s]
                        ELSE LET I == {i \in 1..n : relayPool[i].relay = s} IN
                             IF I = {} THEN sockets[s]
                             ELSE [sockets[s] EXCEPT
                                     !.onmessage = base + (CHOOSE i \in I : TRUE)]]
       /\ wire' = SendReqs(wire, 1, base, currentStartTime, bEnd)
    /\ pc' = "await"
    /\ UNCHANGED <<relayPool, pubkey, normalizedPubkey, startTime,
                   currentEndTime, currentStartTime, hasMoreEvents,
                   totalBatches, events, onProgress, ignored, connects,
                   returned, second, progress>>

\* Promise.all of the current window has rejected
MultiRejected ==
    \E k \in WindowClosures(batchCount) : batches[k].promise = "rejected"

\* Promise.all of the current window has resolved
MultiJoined ==
    \A k \in WindowClosures(batchCount) : batches[k].promise = "resolved"

\* getEvents is suspended on a pending Promise.all
MultiSuspended == pc = "await" /\ ~MultiRejected /\ ~MultiJoined

\* no continuation of getEvents is due: the event loop runs the next task
MultiIdle == MultiSuspended \/ pc \in {"done", "failed"}

\* relay.onmessage, branch type === 'EVENT', of the handler on socket s
MultiOnEvent(s, r) ==
    /\ MultiSuspended
    /\ sockets[s].readyState = "OPEN"
    /\ MultiReceived < MaxMultiMessages
    /\ wire' = Append(wire, InMsg(s, "EVENT", r))
    /\ LET k == sockets[s].onmessage IN
       IF k = 0
       THEN UNCHANGED <<batches, timers, nextTimer>>
       ELSE /\ batches' = [batches EXCEPT
                             ![k].eventCount = @ + 1,
                             ![k].timeout = nextTimer,
                             ![k].events = Append(@, r)]
            /\ timers' = ResetTimeout(timers, batches, k)
            /\ nextTimer' = nextTimer + 1
    /\ UNCHANGED <<sockets, ignored>>
    /\ ClosureFrame

\* relay.onmessage, branch type === 'EOSE': clearTimeout, CLOSE, resolve;
\* the handler stays on the socket
MultiOnEose(s) ==
    /\ MultiSuspended
    /\ sockets[s].readyState = "OPEN"
    /\ MultiReceived < MaxMultiMessages
    /\ LET k == sockets[s].onmessage
           w1 == Append(wire, InMsg(s, "EOSE", 0))
       IN
       IF k = 0
       THEN /\ wire' = w1
            /\ UNCHANGED <<batches, timers>>
       ELSE LET B1 == [batches EXCEPT ![k].receivedEose = TRUE] IN
            /\ timers' = ClearTimeout(timers, batches[k].timeout)
            /\ wire' = Append(w1, CloseMsg(s, batches[k].subId))
            /\ batches' = Resolve(B1, k)
    /\ UNCHANGED <<sockets, nextTimer, ignored>>
    /\ ClosureFrame

\* the setTimeout callback of executor t.call: if (!receivedEose) send
\* CLOSE, resolve; a send on a connecting socket throws before resolve
MultiOnTimeout(t) ==
    /\ MultiIdle
    /\ t \in timers
    /\ timers' = timers \ {t}
    /\ LET k == t.call IN
       IF batches[k].receivedEose \/ SendThrows(batches[k].relay)
       THEN UNCHANGED <<batches, wire>>
       ELSE /\ wire' = SendClose(wire, batches, k)
            /\ batches' = Resolve(batches, k)
    /\ UNCHANGED <<sockets, nextTimer, ignored>>
    /\ ClosureFrame

\* a pooled socket finishes connecting (no onopen handler is set)
MultiSocketOpens(s) ==
    /\ MultiIdle
    /\ sockets[s].readyState = "CONNECTING"
    /\ sockets' = [sockets EXCEPT ![s].readyState = "OPEN"]
    /\ UNCHANGED <<batches, timers, nextTimer, wire, ignored>>
    /\ ClosureFrame

\* ascending sequence of the numbers in S
RECURSIVE SortedSeq(_)
SortedSeq(S) ==
    IF S = {} THEN <<>>
    ELSE LET m == CHOOSE x \in S : \A y \in S : x <= y
         IN <<m>> \o SortedSeq(S \ {m})

\* the events array of the current fetchEventBatch call: what the handlers
\* of the window pushed, in arrival order (payloads are arrival ordinals)
WindowEvents ==
    SortedSeq(UNION {{batches[k].events[j] : j \in DOMAIN batches[k].events} :
                        k \in WindowClosures(batchCount)})

\* the FetchProgress object of this variant
MultiProgress(n, evs) ==
    [currentBatch |-> n, totalBatches |-> totalBatches,
     fetchedEvents |-> Len(evs), startDate |-> currentStartTime,
     endDate |-> batchEndTime]

\* after the await: Promise.all resolved, fetchEventBatch returned events
MultiResumeOk ==
    /\ pc = "await"
    /\ MultiJoined
    /\ LET batchEvents == WindowEvents
           evs == events \o batchEvents
       IN
       /\ events' = evs
       /\ progress' = IF onProgress
                      THEN Append(progress, MultiProgress(batchCount, evs))
                      ELSE progress
       /\ IF Len(batchEvents) = 0
          THEN /\ hasMoreEvents' = FALSE
               /\ UNCHANGED currentStartTime
          ELSE /\ currentStartTime' = batchEndTime
               /\ UNCHANGED hasMoreEvents
    /\ pc' = "loop"
    /\ UNCHANGED <<sockets, relayPool, pubkey, normalizedPubkey, startTime,
                   currentEndTime, batchEndTime, batchCount, totalBatches,
                   onProgress, batches, timers, nextTimer, wire, ignored,
                   connects, returned, second>>

\* after the await: Promise.all rejected with the first rejection; nothing
\* catches it, getEvents rejects
MultiResumeFail ==
    /\ pc = "await"
    /\ MultiRejected
    /\ pc' = "failed"
    /\ UNCHANGED <<sockets, relayPool, getEventsVars, batches, timers,
                   nextTimer, wire, ignored, connects, returned, second,
                   progress>>

\* after `new NostrClient()`: every default relay has a socket in the pool,
\* connecting, already open, or already closed
InitMulti ==
    /\ \E rs \in [1..Len(DefaultRelays) -> {"CONNECTING", "OPEN", "CLOSED"}] :
         sockets = [i \in 1..Len(DefaultRelays) |->
                      [url |-> DefaultRelays[i], readyState |-> rs[i],
                       onmessage |-> 0]]
    /\ relayPool = [i \in 1..Len(DefaultRelays) |->
                      [url |-> DefaultRelays[i], relay |-> i]]
    /\ pc = "idle"
    /\ pubkey = NoKey /\ normalizedPubkey = NoKey
    /\ startTime = 0 /\ currentEndTime = 0 /\ currentStartTime = 0
    /\ batchEndTime = 0 /\ hasMoreEvents = TRUE /\ batchCount = 0
    /\ totalBatches = 0 /\ events = <<>> /\ onProgress = FALSE
    /\ batches = <<>>
    /\ timers = {}
    /\ nextTimer = 1
    /\ wire = <<>>
    /\ ignored = 0
    /\ connects = <<>>
    /\ returned = <<>>
    /\ second = NoCall
    /\ progress = <<>>

NextMulti ==
    \/ \E c \in MultiCalls : GetEvents(c[1], c[2], c[3])
    \/ LoopExit
    \/ MultiFetchEventBatch
    \/ \E s \in DOMAIN sockets, r \in Records(wire) : MultiOnEvent(s, r)
    \/ \E s \in DOMAIN sockets : MultiOnEose(s)
    \/ \E t \in timers : MultiOnTimeout(t)
    \/ \E s \in DOMAIN sockets : MultiSocketOpens(s)
    \/ MultiResumeOk
    \/ MultiResumeFail

SpecMulti == InitMulti /\ [][NextMulti]_vars

\* ============================================================== properties
Resolved(i) == batches[i].promise = "resolved"
Failed(i) == batches[i].promise = "rejected"
EmptyWindow(i) == Resolved(i) /\ batches[i].events = <<>>

\* getEvents has taken the outcome of window i out of the await
Consumed(i) == i < Len(batches) \/ pc \in {"loop", "done"}

\* position on the wire of the REQ of subscription i (0: no REQ was sent)
ReqIndex(w, i) ==
    LET P == {p \in DOMAIN w : w[p].dir = "out" /\ w[p].type = "REQ" /\ w[p].sub = i}
    IN IF P = {} THEN 0 ELSE CHOOSE p \in P : TRUE

\* first client message after position p (Len + 1: none)
NextOut(w, p) ==
    LET Q == {q \in DOMAIN w : q > p /\ w[q].dir = "out"}
    IN IF Q = {} THEN Len(w) + 1 ELSE CHOOSE q \in Q : \A r \in Q : q <= r

\* payloads of the EVENT messages that arrived while subscription i was the
\* latest request on the wire, in arrival order
Delivered(w, i) ==
    LET p == ReqIndex(w, i) IN
    IF p = 0 THEN <<>>
    ELSE LET seg == SubSeq(w, p + 1, NextOut(w, p) - 1)
             evs == SelectSeq(seg, LAMBDA m : m.type = "EVENT")
         IN [j \in 1..Len(evs) |-> evs[j].data]

ResolvedAndConsumed(i) == Resolved(i) /\ Consumed(i)

\* concatenation, in window order, of the buffers of the resolved windows 1..n
RECURSIVE ConcatBuffers(_)
ConcatBuffers(n) ==
    IF n = 0 THEN <<>>
    ELSE ConcatBuffers(n - 1) \o (IF Resolved(n) THEN batches[n].events ELSE <<>>)

\* concatenation, in window order, of the records that arrived on the wire
\* for the windows 1..n that resolved and were taken by getEvents
RECURSIVE ConcatArrived(_)
ConcatArrived(n) ==
    IF n = 0 THEN <<>>
    ELSE ConcatArrived(n - 1)
            \o (IF ResolvedAndConsumed(n) THEN Delivered(wire, n) ELSE <<>>)

\* the resolved windows among 1..n, in increasing order
RECURSIVE ResolvedIndexes(_)
ResolvedIndexes(n) ==
    IF n = 0 THEN <<>>
    ELSE IF Resolved(n) THEN Append(ResolvedIndexes(n - 1), n)
         ELSE ResolvedIndexes(n - 1)

ProgressBatches == [j \in 1..Len(progress) |-> progress[j].currentBatch]

\* subscriptions with a REQ on the wire and no CLOSE after it
OpenSubs(w) ==
    {w[p].sub : p \in {q \in DOMAIN w :
        /\ w[q].dir = "out" /\ w[q].type = "REQ"
        /\ ~\E c \in DOMAIN w : c > q /\ w[c].dir = "out"
                                /\ w[c].type = "CLOSE" /\ w[c].sub = w[q].sub}}

\* C1: a window whose fetchEventBatch fails never aborts the fetch: the next
\* window starts at the failed window's end, a failed window is the last one
\* only when it ends the range, no progress is emitted for it, and the result
\* is the concatenation in window order of the non-failing windows' records.
C1_FailedWindowSkipped ==
    /\ \A i \in 1..(Len(batches) - 1) :
         Failed(i) => batches[i + 1].since = batches[i].until
    /\ \A i \in DOMAIN batches :
         (Failed(i) /\ Consumed(i) /\ i = Len(batches))
            => /\ currentStartTime = batches[i].until
               /\ hasMoreEvents
    /\ pc = "done" =>
         /\ (Len(batches) > 0 /\ Failed(Len(batches)))
               => Last(batches).until = currentEndTime
         /\ events = ConcatBuffers(Len(batches))
         /\ onProgress => ProgressBatches = ResolvedIndexes(Len(batches))

\* C1 witness: five windows, the second failed, the others non-empty, and
\* progress for 1, 3, 4, 5.
C1_Witness ==
    /\ pc = "done"
    /\ Len(batches) = 5
    /\ Failed(2)
    /\ \A i \in {1, 3, 4, 5} : Resolved(i) /\ batches[i].events # <<>>
    /\ ProgressBatches = <<1, 3, 4, 5>>
    /\ Len(events) = 4

\* C2: once a window has returned zero records no later window is fetched
\* (no REQ is sent after it) and getEvents returns what it had accumulated.
C2_EmptyWindowStops ==
    /\ \A i \in DOMAIN batches : (EmptyWindow(i) /\ Consumed(i)) =>
         /\ i = Len(batches)
         /\ ~hasMoreEvents
         /\ \A p \in DOMAIN wire :
              (wire[p].dir = "out" /\ wire[p].type = "REQ") => wire[p].sub <= i
         /\ events = ConcatBuffers(i - 1)
    /\ (pc = "loop" /\ ~hasMoreEvents) => ~ENABLED FetchEventBatch

\* C2 witness: five windows planned, the second returned nothing, the run
\* is over after two windows.
C2_Witness ==
    /\ pc = "done"
    /\ totalBatches = 5
    /\ Len(batches) = 2
    /\ Resolved(1) /\ batches[1].events # <<>>
    /\ EmptyWindow(2)
    /\ events = batches[1].events

\* C3: at most one subscription is open on the connection at any time: no
\* REQ is on the wire while an earlier REQ has no CLOSE after it.
C3_OneOpenSubscription == Cardinality(OpenSubs(wire)) <= 1

\* C4: a subscription that received EOSE is resolved at once with exactly
\* the records delivered by the EVENT messages before the EOSE, and none of
\* its timers stays armed, so its timer callback never runs afterwards.
C4_EoseResolves ==
    \A i \in DOMAIN batches : batches[i].receivedEose =>
        /\ Resolved(i)
        /\ batches[i].events = Delivered(wire, i)
        /\ ~\E t \in timers : t.call = i

\* C4 witness: a subscription ended by EOSE after two records, run finished.
C4_Witness ==
    /\ pc = "done"
    /\ \E i \in DOMAIN batches :
          batches[i].receivedEose /\ Len(batches[i].events) = 2

\* C5: when the silence timer of a subscription fires before any EOSE, the
\* window's promise is resolved, not rejected, with exactly the records
\* received so far (possibly none).
C5_TimeoutResolves ==
    [][\A t \in timers :
         (OnTimeout(t) /\ ~batches[t.call].receivedEose
                       /\ batches[t.call].promise = "pending")
            => /\ batches'[t.call].promise = "resolved"
               /\ batches'[t.call].events = Delivered(wire, t.call)
               /\ batches'[t.call].events = batches[t.call].events]_vars

\* C5 witness: one window resolved by timeout with a record, another
\* resolved by timeout with none.
C5_Witness ==
    /\ \E i \in DOMAIN batches :
          Resolved(i) /\ ~batches[i].receivedEose /\ batches[i].events # <<>>
    /\ \E i \in DOMAIN batches :
          Resolved(i) /\ ~batches[i].receivedEose /\ batches[i].events = <<>>

\* C6: a window failed by a malformed message has had a CLOSE for its
\* subscription id sent before the failure reaches getEvents.
C6_MalformedClosesSubscription ==
    \A i \in DOMAIN batches : batches[i].error = "Malformed" =>
        \E p \in DOMAIN wire :
            wire[p].dir = "out" /\ wire[p].type = "CLOSE" /\ wire[p].sub = i

\* C7: the accumulated result is the concatenation, oldest window first, of
\* the records of the successful windows, each in the order its EVENT
\* messages arrived; nothing is reordered, dropped or duplicated.
C7_ResultInArrivalOrder ==
    events = ConcatArrived(Len(batches))

\* C7 witness: a finished run of three successful windows, one with two
\* records, and a failed window that had received a record.
C7_Witness ==
    /\ pc = "done"
    /\ Len(events) = 3
    /\ \E i \in DOMAIN batches : Resolved(i) /\ Len(batches[i].events) = 2
    /\ \E i \in DOMAIN batches : Failed(i) /\ batches[i].events # <<>>
    /\ Cardinality({i \in DOMAIN batches : Resolved(i)}) >= 3

\* C8: at most one progress notification per window, with strictly
\* increasing currentBatch, each naming a window that was fetched.
C8_ProgressStrictlyIncreasing ==
    /\ \A j \in 1..(Len(progress) - 1) :
         progress[j].currentBatch < progress[j + 1].currentBatch
    /\ \A j \in DOMAIN progress : progress[j].currentBatch \in 1..Len(batches)

\* C8 witness: notifications for windows 1, 3 and 4 of a run with a failed
\* window 2 and an empty window 4.
C8_Witness ==
    /\ pc = "done"
    /\ ProgressBatches = <<1, 3, 4>>
    /\ Failed(2)
    /\ EmptyWindow(4)

\* C9: fetchedEvents is non-decreasing across the progress notifications.
C9_CountNonDecreasing ==
    \A j \in 1..(Len(progress) - 1) :
        progress[j].fetchedEvents <= progress[j + 1].fetchedEvents

\* C9 witness: a count that grows by two, then by one, then stays.
C9_Witness ==
    /\ Len(progress) = 3
    /\ progress[1].fetchedEvents = 2
    /\ progress[2].fetchedEvents = 3
    /\ progress[3].fetchedEvents = 3

NoEmptyWindow == \A i \in DOMAIN batches : ~EmptyWindow(i)

\* C10: for start < end the filters built by getEvents are contiguous from
\* start, each with since < until inside [start, end]; every REQ carries its
\* window's bounds; and when no window returned zero records the last until
\* is end.
C10_WindowsCoverRange ==
    (pc # "idle" /\ startTime < currentEndTime) =>
        /\ Len(batches) > 0 => batches[1].since = startTime
        /\ \A i \in DOMAIN batches :
             /\ batches[i].since < batches[i].until
             /\ startTime <= batches[i].since
             /\ batches[i].until <= currentEndTime
        /\ \A i \in 1..(Len(batches) - 1) :
             batches[i + 1].since = batches[i].until
        /\ \A p \in DOMAIN wire :
             (wire[p].dir = "out" /\ wire[p].type = "REQ") =>
                /\ wire[p].sub \in DOMAIN batches
                /\ wire[p].since = batches[wire[p].sub].since
                /\ wire[p].until = batches[wire[p].sub].until
        /\ (pc = "done" /\ NoEmptyWindow) =>
             /\ Len(batches) > 0
             /\ Last(batches).until = currentEndTime

\* C10 witness: a finished run over 4.5 windows, none empty, one failed, the
\* last window shorter than BATCH_WINDOW.
C10_Witness ==
    /\ pc = "done"
    /\ NoEmptyWindow
    /\ Len(batches) = 5
    /\ \E i \in DOMAIN batches : Failed(i)
    /\ Last(batches).until - Last(batches).since < BATCH_WINDOW
    /\ Last(batches).until = currentEndTime


\* n is the ceiling of a / b, stated without the model's Ceil
IsCeiling(n, a, b) == (n - 1) * b < a /\ a <= n * b

\* what C11 says of a run: no more windows than totalBatches, as many when
\* none was empty; full windows except a clipped last one; every progress
\* notification carries totalBatches and a currentBatch in 1..totalBatches
WindowCountHolds ==
    /\ IsCeiling(totalBatches, currentEndTime - startTime, BATCH_WINDOW)
    /\ Len(batches) <= totalBatches
    /\ (pc = "done" /\ NoEmptyWindow) => Len(batches) = totalBatches
    /\ \A i \in DOMAIN batches :
         /\ batches[i].until - batches[i].since <= BATCH_WINDOW
         /\ batches[i].until - batches[i].since < BATCH_WINDOW
               => (i = totalBatches /\ batches[i].until = currentEndTime)
    /\ \A j \in DOMAIN progress :
         /\ progress[j].totalBatches = totalBatches
         /\ progress[j].currentBatch \in 1..totalBatches

\* C11 as stated: for every call, the number of windows requested never
\* exceeds totalBatches = ceil((end - start) / windowSize) and equals it when
\* no window is empty, windows are full except a clipped last one, and every
\* progress notification carries totalBatches and 1 <= currentBatch <= totalBatches.
C11_WindowCount == pc # "idle" => WindowCountHolds

\* C11 amended: the same for every call whose range has
\* end - start > -windowSize (in particular every start <= end).
C11_WindowCountFromNonNegativeTotal ==
    (pc # "idle" /\ currentEndTime - startTime > -BATCH_WINDOW) => WindowCountHolds

\* C11 witness: a finished run over 2.5 windows made exactly 3 requests, the
\* last shorter than BATCH_WINDOW, with three notifications.
C11_Witness ==
    /\ pc = "done"
    /\ currentEndTime - startTime = 2 * BATCH_WINDOW + HalfWindow
    /\ totalBatches = 3
    /\ Len(batches) = 3
    /\ Last(batches).until - Last(batches).since = HalfWindow
    /\ Len(progress) = 3


\* ------------------------------------------------- connectToRelay properties
ConnectIsPending(c) == connects[c].promise = "pending"

\* no connectToRelay call so far was made while an earlier one was pending
NoOverlap == \A c \in DOMAIN connects : connects[c].alone

C13_ReplaceLeavesOneConnection ==
    [][NoOverlap =>
         /\ \A u \in RelayUrls :
              (ConnectToRelay(u) /\ ~CanReuse(u)) =>
                 /\ relayPool' = <<>>
                 /\ \A j \in DOMAIN relayPool :
                      sockets'[relayPool[j].relay].readyState # "OPEN"
         /\ \A c \in DOMAIN connects :
              (OnOpen(c) /\ ConnectIsPending(c)) =>
                 /\ Len(relayPool') = 1
                 /\ relayPool'[1].url = connects[c].url
                 /\ sockets'[relayPool'[1].relay].readyState = "OPEN"]_vars

\* C14: an attempt that is not a reuse has one outcome, decided by what
\* happens first (open: success, error: ConnectError, the wait running out:
\* ConnectTimeout) and never changed afterwards; the wait timer is no longer
\* armed once the transport has opened or failed, and a timeout is reported
\* only while the transport is still connecting.
C14_OneOutcome ==
    [][\A c \in DOMAIN connects : ~connects[c].reused =>
         /\ (OnOpen(c) /\ ConnectIsPending(c))
               => (connects'[c].promise = "resolved" /\ connects'[c].error = "none")
         /\ (OnError(c) /\ ConnectIsPending(c))
               => (connects'[c].promise = "rejected" /\ connects'[c].error = "Failed")
         /\ (OnConnectTimeout(c) /\ ConnectIsPending(c))
               => (connects'[c].promise = "rejected" /\ connects'[c].error = "Timeout")
         /\ ~ConnectIsPending(c)
               => /\ connects'[c].promise = connects[c].promise
                  /\ connects'[c].error = connects[c].error
         /\ sockets'[connects[c].sock].readyState # "CONNECTING"
               => connects'[c].timer # "armed"
         /\ (connects[c].error # "Timeout" /\ connects'[c].error = "Timeout")
               => sockets[connects[c].sock].readyState = "CONNECTING"]_vars

\* C14 witness: one attempt timed out, one failed, one succeeded.
C14_Witness ==
    /\ \E c \in DOMAIN connects : connects[c].error = "Timeout"
    /\ \E c \in DOMAIN connects : connects[c].error = "Failed"
    /\ \E c \in DOMAIN connects :
          ~connects[c].reused /\ connects[c].promise = "resolved"
             /\ connects[c].timer = "cleared"


\* ------------------------------------------------------- pubkey properties
\* the identifier is a 64-digit hex string or a well-formed npub
AcceptableKey(s) == IsHex64(s) \/ s = NpubKey

\* C15: getEvents with an identifier that is neither a 64-digit hex string
\* nor a valid encoded public key fails at once; nothing is sent, no timer,
\* subscription or progress notification is made, the pool and its sockets
\* are untouched, and nothing of the kind follows the failure.
C15_InvalidIdentifierFails ==
    [][/\ \A c \in Calls :
            (GetEvents(c[1], c[2], c[3]) /\ ~AcceptableKey(c[1]))
               => /\ pc' = "failed"
                  /\ UNCHANGED <<wire, progress, relayPool, sockets, batches,
                                 timers, events>>
       /\ pc = "failed"
            => /\ pc' = "failed"
               /\ UNCHANGED <<wire, progress, relayPool, batches, timers>>]_vars

\* C15 witness: a call with an invalid identifier has failed on a client
\* whose pooled connection is open, with nothing sent.
C15_Witness ==
    /\ pc = "failed"
    /\ pubkey = BadNpub
    /\ Len(relayPool) = 1
    /\ sockets[relayPool[1].relay].readyState = "OPEN"
    /\ wire = <<>>
    /\ progress = <<>>

LowerHexChars ==
    {"0", "1", "2", "3", "4", "5", "6", "7", "8", "9",
     "a", "b", "c", "d", "e", "f"}

HexValue(c) ==
    CASE c \in {"a", "A"} -> 10 [] c \in {"b", "B"} -> 11
      [] c \in {"c", "C"} -> 12 [] c \in {"d", "D"} -> 13
      [] c \in {"e", "E"} -> 14 [] c \in {"f", "F"} -> 15
      [] c = "0" -> 0 [] c = "1" -> 1 [] c = "2" -> 2 [] c = "3" -> 3
      [] c = "4" -> 4 [] c = "5" -> 5 [] c = "6" -> 6 [] c = "7" -> 7
      [] c = "8" -> 8 [] c = "9" -> 9

\* out is in with every hex digit in lower case
IsLowerCased(in, out) ==
    /\ Len(out) = Len(in)
    /\ \A i \in DOMAIN in :
          out[i] \in LowerHexChars /\ HexValue(out[i]) = HexValue(in[i])

\* C16: normalizePubkey of a 64-digit hex string returns it lower-cased,
\* and normalizePubkey of a returned value returns that value again without
\* failing.
C16_NormalizeLowercasesAndIsIdempotent ==
    [][/\ (Normalize /\ IsHex64(pubkey))
            => (pc' = "normalized" /\ IsLowerCased(pubkey, normalizedPubkey'))
       /\ Renormalize
            => (pc' = "renormalized" /\ normalizedPubkey' = normalizedPubkey)]_vars

\* C16 witness: an upper-case hex key was normalized twice.
C16_Witness ==
    /\ pc = "renormalized"
    /\ pubkey = Str64("A", "F")
    /\ normalizedPubkey = Str64("a", "f")


\* ------------------------------------------------ fetchEventBatch properties
\* C19: fetchEventBatch on an empty pool fails at once with NoConnection,
\* and on a pooled connection that is not Open with NotOpen; in both cases
\* no REQ is sent, no timer is armed and no message handler is installed.
C19_NoConnectionFailsAtOnce ==
    [][FetchEventBatch =>
         LET k == Len(batches) + 1 IN
         /\ Len(relayPool) = 0
              => /\ batches'[k].promise = "rejected"
                 /\ batches'[k].error = "NoRelay"
                 /\ UNCHANGED <<wire, timers, nextTimer, sockets>>
         /\ (Len(relayPool) > 0
               /\ sockets[relayPool[1].relay].readyState # "OPEN")
              => /\ batches'[k].promise = "rejected"
                 /\ batches'[k].error = "NotOpen"
                 /\ UNCHANGED <<wire, timers, nextTimer, sockets>>]_vars

\* C19 witness: the connection went down after a first window had
\* resolved, and the next window failed with NotOpen with no timer armed.
C19_Witness ==
    /\ Len(batches) >= 2
    /\ batches[1].promise = "resolved"
    /\ Last(batches).promise = "rejected"
    /\ Last(batches).error = "NotOpen"
    /\ timers = {}
    /\ sockets[Last(batches).relay].onmessage = 0

\* C20: a message whose subscription id is not the id of the current REQ
\* leaves the current window alone: an EVENT is not appended and does not
\* re-arm the timer, an EOSE does not resolve the window.
C20_OnlyCurrentSubscription ==
    [][\A s \in DOMAIN sockets, sid \in 1..MaxWindows :
         (/\ Suspended
          /\ sid # Last(batches).subId
          /\ \/ OnEose(s, sid)
             \/ \E r \in Records(wire) : OnEvent(s, sid, r))
            => UNCHANGED <<batches, timers>>]_vars


\* ------------------------------------------------- repeated-call properties
IdsOf(evs) == {evs[i] : i \in DOMAIN evs}

SameResults == \A i, j \in DOMAIN returned : IdsOf(returned[i]) = IdsOf(returned[j])

\* no window so far was ended by the silence timeout
NoWindowTimedOut ==
    \A k \in DOMAIN batches :
        batches[k].promise = "resolved" => batches[k].receivedEose

\* C17 (as stated): successive getEvents calls with the same identifier and
\* range against an unchanged relay return the same set of ids.
C17_SameResultTwice == SameResults

\* C17 (amended): they return the same set of ids provided every window of
\* the calls was ended by EOSE and none by the silence timeout.
C17_SameResultTwiceWithoutTimeout == NoWindowTimedOut => SameResults

\* C17 witness: two calls over 2.5 windows have returned, each with the one
\* stored event its windows reached, every window ended by EOSE.
C17_Witness ==
    /\ pc = "done"
    /\ Len(returned) = 2
    /\ returned[1] = <<1>>
    /\ returned[2] = <<1>>
    /\ Len(batches) = 4
    /\ NoWindowTimedOut


\* ------------------------------------------------ overlapping-call property
\* C18: overlapping getEvents calls never share the connection: while a
\* subscription is pending, the connection's message handler is the one
\* that subscription installed (no other call has replaced or removed it).
C18_CallsDoNotShareConnection ==
    \A k \in DOMAIN batches :
        batches[k].promise = "pending"
            => sockets[batches[k].relay].onmessage = k


\* --------------------------------------------- subscription end properties
TimersOf(T, k) == {t \in T : t.call = k}

\* C21: a settled subscription stays as it was settled (promise, buffer and
\* flags never change again); a timer callback runs only for a subscription
\* that is pending and has had no EOSE, and the EOSE branch runs only in the
\* handler of a pending subscription.
C21_ResolvedOnce ==
    [][/\ \A k \in DOMAIN batches :
            batches[k].promise # "pending" => batches'[k] = batches[k]
       /\ \A t \in timers :
            OnTimeout(t) => /\ batches[t.call].promise = "pending"
                            /\ ~batches[t.call].receivedEose
       /\ \A s \in DOMAIN sockets, sid \in 1..MaxWindows :
            (OnEose(s, sid) /\ sockets[s].onmessage # 0)
               => batches[sockets[s].onmessage].promise = "pending"]_vars

\* C21 witness: the first window ended by EOSE with a record, the second by
\* timeout with a record, the third by EOSE with none; the call returned.
C21_Witness ==
    /\ pc = "done"
    /\ Len(batches) = 3
    /\ batches[1].receivedEose /\ Len(batches[1].events) = 1
    /\ Resolved(2) /\ ~batches[2].receivedEose /\ Len(batches[2].events) = 1
    /\ batches[3].receivedEose /\ batches[3].events = <<>>
    /\ Len(events) = 2

\* C22: every EVENT taken by a subscription's handler cancels the timer
\* that was armed for it and arms a fresh one; a subscription never has two
\* armed timers; the timer that resolves a subscription is the one armed
\* last, so no EVENT was received since it was armed.
C22_TimerMeasuresSilence ==
    [][/\ \A s \in DOMAIN sockets, sid \in 1..MaxWindows, r \in Records(wire) :
            (OnEvent(s, sid, r) /\ sockets[s].onmessage # 0) =>
               LET k == sockets[s].onmessage IN
               /\ TimersOf(timers, k) \cap timers' = {}
               /\ \E t \in timers' \ timers :
                     t.call = k /\ t.id = batches'[k].timeout
       /\ \A k \in DOMAIN batches' : Cardinality(TimersOf(timers', k)) <= 1
       /\ \A t \in timers :
            (OnTimeout(t) /\ batches'[t.call] # batches[t.call])
               => t.id = batches[t.call].timeout]_vars

\* C22 witness: a subscription took two records, each re-arming the timer,
\* and was then resolved by the third timer.
C22_Witness ==
    \E k \in DOMAIN batches :
        /\ Resolved(k)
        /\ ~batches[k].receivedEose
        /\ batches[k].eventCount = 2
        /\ batches[k].timeout = 3
        /\ TimersOf(timers, k) = {}

\* C24: an armed timer and an installed message handler always belong to a
\* subscription that is still pending: whichever way a subscription ends
\* (EOSE, timeout, malformed message), none of its timers stays armed and
\* its handler is off the connection.
C24_NothingOutlivesSubscription ==
    /\ \A t \in timers : batches[t.call].promise = "pending"
    /\ \A s \in DOMAIN sockets :
          sockets[s].onmessage # 0
             => batches[sockets[s].onmessage].promise = "pending"

\* C24 witness: three windows ended by malformed message, by timeout and by
\* EOSE; no timer is armed and no handler is installed.
C24_Witness ==
    /\ pc = "done"
    /\ Len(batches) = 3
    /\ batches[1].error = "Malformed"
    /\ Resolved(2) /\ ~batches[2].receivedEose
    /\ batches[3].receivedEose
    /\ timers = {}
    /\ \A s \in DOMAIN sockets : sockets[s].onmessage = 0


\* positions on the wire of the CLOSE messages of subscription id
ClosePositions(w, id) ==
    {p \in DOMAIN w : w[p].dir = "out" /\ w[p].type = "CLOSE" /\ w[p].sub = id}

\* exactly one CLOSE with the id of the REQ of call k is on the wire, after
\* that REQ
OneCloseAfterReq(k) ==
    /\ ReqIndex(wire, batches[k].subId) # 0
    /\ Cardinality(ClosePositions(wire, batches[k].subId)) = 1
    /\ \A p \in ClosePositions(wire, batches[k].subId) :
          /\ p > ReqIndex(wire, batches[k].subId)
          /\ wire[p].sock = batches[k].relay

\* call k sent a REQ and its promise is resolved (by EOSE or by timeout)
ResolvedSubscription(k) == Resolved(k) /\ batches[k].subId # 0

\* C23 (as stated): as soon as a subscription is resolved, by EOSE or by
\* timeout, and so before getEvents takes its records, exactly one CLOSE
\* with the subscription id of its REQ has been sent, after the REQ.
C23_OneClosePerResolvedSubscription ==
    \A k \in DOMAIN batches : ResolvedSubscription(k) => OneCloseAfterReq(k)

\* C23 (amended): the same for every subscription whose connection is
\* still open; on a connection that closed before the timeout the CLOSE is
\* handed to a closed socket and is not transmitted.
C23_OneClosePerResolvedSubscriptionIfOpen ==
    \A k \in DOMAIN batches :
        (ResolvedSubscription(k)
           /\ sockets[batches[k].relay].readyState = "OPEN")
            => OneCloseAfterReq(k)

\* C23 witness: the first window was resolved by timeout and the second by
\* EOSE, each with its CLOSE on the wire; getEvents has not yet taken the
\* second.
C23_Witness ==
    /\ pc = "await"
    /\ Len(batches) = 2
    /\ Resolved(1) /\ ~batches[1].receivedEose
    /\ Resolved(2) /\ batches[2].receivedEose
    /\ OneCloseAfterReq(1)
    /\ OneCloseAfterReq(2)
    /\ sockets[batches[2].relay].readyState = "OPEN"


\* -------------------------------------------------------- window properties
\* the timestamps both window i and window j ask for, with the filter bounds
\* read as since <= created_at <= until
SharedTimestamps(i, j) ==
    {t \in {batches[i].since, batches[i].until, batches[j].since, batches[j].until} :
        /\ batches[i].since <= t /\ t <= batches[i].until
        /\ batches[j].since <= t /\ t <= batches[j].until}

\* C25: no timestamp satisfies the filters of two windows of one getEvents
\* call, so no stored event is returned by two windows.
C25_WindowsDisjoint ==
    \A i, j \in DOMAIN batches : i # j => SharedTimestamps(i, j) = {}

IsPrefix(a, b) == Len(a) <= Len(b) /\ SubSeq(b, 1, Len(a)) = a

\* C28: the partial result handed over with a progress notification has
\* fetchedEvents elements and is a prefix of the accumulated result at every
\* later moment, so of the returned result; when a notification was made,
\* the returned result is the partial result of the last one.
C28_PartialResultIsPrefix ==
    /\ \A j \in DOMAIN progress :
          /\ Len(progress[j].partialEvents) = progress[j].fetchedEvents
          /\ IsPrefix(progress[j].partialEvents, events)
    /\ (pc = "done" /\ progress # <<>>)
          => /\ events = Last(progress).partialEvents
             /\ Last(returned) = Last(progress).partialEvents

\* C28 witness: three notifications with 1, 2 and 2 records (an empty last
\* window) after a failed first window; the call returned the two records.
C28_Witness ==
    /\ pc = "done"
    /\ Len(batches) = 4
    /\ Failed(1)
    /\ Len(progress) = 3
    /\ Len(progress[1].partialEvents) = 1
    /\ Len(progress[2].partialEvents) = 2
    /\ progress[3].partialEvents = progress[2].partialEvents
    /\ returned = <<progress[3].partialEvents>>


\* ------------------------------------------- connection pool properties
\* C26: however connectToRelay calls overlap, the pool never holds more
\* than one connection, and once no call is pending and the most recent
\* call has succeeded, pool entry 0 is a connection to that call's url.
C26_OnePooledConnection ==
    /\ Len(relayPool) <= 1
    /\ (~ConnectPending /\ connects # <<>>
          /\ Last(connects).promise = "resolved")
          => (relayPool # <<>> /\ relayPool[1].url = Last(connects).url)

\* C29: the transport of an attempt that failed with ConnectTimeout opening
\* afterwards leaves the pool as it is.
C29_TimedOutAttemptLeavesPool ==
    [][\A c \in DOMAIN connects :
         (OnOpen(c) /\ connects[c].error = "Timeout")
            => relayPool' = relayPool]_vars

\* C30: when an attempt that is not a reuse fails, by ConnectError or by
\* ConnectTimeout, the pool is empty at that moment.
C30_FailedConnectLeavesPoolEmpty ==
    [][\A c \in DOMAIN connects :
         (ConnectIsPending(c) /\ (OnError(c) \/ OnConnectTimeout(c)))
            => relayPool' = <<>>]_vars


\* ------------------------------------------------------ multi-relay property
\* getEvents has come out of the await of window w
WindowCompleted(w) == w < batchCount \/ pc \in {"loop", "done", "failed"}

\* C27: a window of the multi-relay variant completes only after the
\* subscription of every pooled relay has ended: no executor of a completed
\* window is still pending.
C27_WindowJoinsAllRelays ==
    \A k \in DOMAIN batches :
        WindowCompleted(batches[k].window) => batches[k].promise # "pending"

\* ------------------------------------------------- silent and failed windows
\* getEvents comes out of the await of the window it was suspended on
LeavesAwait == pc = "await" /\ pc' = "loop"

\* the window was resolved by the silence timer, before any EOSE
TimedOut(i) == Resolved(i) /\ ~batches[i].receivedEose

\* C31: a window resolved by the silence timer with no record is handled
\* like a window that got EOSE with no record: if a callback was given, one
\* notification is emitted whose cumulative count equals the count before
\* the window, the accumulated result is unchanged, and the loop is ended
\* so that no later window is requested; a window that failed leaves the
\* loop running and emits nothing.
C31_SilentWindowStopsLikeEmpty ==
    [][LeavesAwait =>
         /\ EmptyWindow(Awaited) =>
              /\ events' = events
              /\ ~hasMoreEvents'
              /\ ~LoopCond'
              /\ currentStartTime' = currentStartTime
              /\ progress' = IF onProgress
                             THEN Append(progress, Progress(batchCount, events))
                             ELSE progress
         /\ (EmptyWindow(Awaited) /\ TimedOut(Awaited) /\ onProgress) =>
              /\ Last(progress').fetchedEvents = Len(events)
              /\ Len(progress) > 0 =>
                   Last(progress').fetchedEvents = Last(progress).fetchedEvents
         /\ Failed(Awaited) =>
              /\ hasMoreEvents' = hasMoreEvents
              /\ hasMoreEvents'
              /\ progress' = progress]_vars

\* C31 witness: five windows planned; the first returned a record, the
\* second failed, the third was resolved by the silence timer with no
\* record: the run is over after three windows, with two notifications
\* carrying the same cumulative count.
C31_Witness ==
    /\ pc = "done"
    /\ onProgress
    /\ totalBatches = 5
    /\ Len(batches) = 3
    /\ Resolved(1) /\ batches[1].events # <<>>
    /\ Failed(2)
    /\ EmptyWindow(3) /\ TimedOut(3)
    /\ ProgressBatches = <<1, 3>>
    /\ progress[1].fetchedEvents = progress[2].fetchedEvents

\* the window failed on a malformed message
FailedOnMalformed(i) == Failed(i) /\ batches[i].error = "Malformed"

\* the records in a sequence
RecordsIn(evs) == {evs[j] : j \in DOMAIN evs}

\* the accumulated result as it stood when window i was requested: the
\* buffers of the resolved windows before it
ResultBefore(i) == ConcatBuffers(i - 1)

\* C32: a window that failed on a malformed message contributes nothing:
\* the records it had buffered before the malformed message appear neither
\* in the accumulated result nor in any partial result handed to the
\* callback; when getEvents has taken the failure, the accumulated result
\* is what it was when the window was requested, no notification was
\* emitted for the window, and every cumulative count reported later
\* counts only records of other windows.
C32_MalformedWindowContributesNothing ==
    \A i \in DOMAIN batches : FailedOnMalformed(i) =>
        /\ RecordsIn(batches[i].events) \cap RecordsIn(events) = {}
        /\ \A q \in DOMAIN progress :
             /\ RecordsIn(batches[i].events)
                   \cap RecordsIn(progress[q].partialEvents) = {}
             /\ progress[q].currentBatch # i
             /\ progress[q].fetchedEvents = Len(progress[q].partialEvents)
             /\ progress[q].currentBatch > i =>
                  progress[q].fetchedEvents
                     = Len(ConcatBuffers(progress[q].currentBatch))
        /\ (Consumed(i) /\ i = Len(batches)) => events = ResultBefore(i)
        /\ pc = "done" => Len(events) = Len(ConcatBuffers(Len(batches)))

\* C32 witness: the first window returned a record, the second had buffered
\* a record when a malformed message failed it, the third returned a
\* record; the result holds two records and the counts reported are 1, 2.
C32_Witness ==
    /\ pc = "done"
    /\ onProgress
    /\ Len(batches) = 3
    /\ Resolved(1) /\ Len(batches[1].events) = 1
    /\ FailedOnMalformed(2) /\ Len(batches[2].events) = 1
    /\ Resolved(3) /\ Len(batches[3].events) = 1
    /\ events = batches[1].events \o batches[3].events
    /\ [q \in 1..Len(progress) |-> progress[q].fetchedEvents] = <<1, 2>>

\* ---------------------------------------------------------------- termination
\* the call has passed the validation of its identifier and has not returned
Running == pc \in {"loop", "await"}

\* the requested range is empty: start >= end
EmptyRange == startTime >= currentEndTime

\* C33: every getEvents call that has entered its loop eventually returns,
\* the relay sending finitely many messages and an armed timer eventually
\* firing: each time getEvents comes out of an await the loop is ended or
\* the cursor has moved strictly forward without passing the end, also
\* after the connection was closed in the middle of the fetch; with
\* start >= end no window is requested, the only step possible is the
\* return, and the result is empty.
C33_GetEventsReturns ==
    /\ [][LeavesAwait =>
            \/ ~hasMoreEvents'
            \/ /\ currentStartTime' > currentStartTime
               /\ currentStartTime' <= currentEndTime]_vars
    /\ []((pc = "loop" /\ EmptyRange) =>
            /\ ~ENABLED FetchEventBatch
            /\ ENABLED LoopExit
            /\ batches = <<>>)
    /\ []((pc = "done" /\ EmptyRange) =>
            /\ batches = <<>>
            /\ wire = <<>>
            /\ returned = <<(<<>>)>>)
    /\ Running ~> (pc = "done")

\* C33 witness: a call over three windows has returned although the
\* connection was closed in the middle of the fetch: one window was
\* resolved by its timer on the closed connection and the windows after it
\* failed at once, each advancing the cursor to the end of the range.
C33_Witness ==
    /\ pc = "done"
    /\ Len(batches) = 3
    /\ currentStartTime = currentEndTime
    /\ \E s \in DOMAIN sockets : sockets[s].readyState = "CLOSED"
    /\ \E i \in DOMAIN batches : TimedOut(i) /\ batches[i].events # <<>>
    /\ Last(batches).error = "NotOpen"
    /\ returned = <<events>>

====
